---- MODULE Spec2Model ----
(***************************************************************************)
(* Model of the Herald Scotland announcement bots:                         *)
(*   src/herald_bot.py          class HeraldBot          (X / Twitter)     *)
(*   src/herald_bluesky_bot.py  class HeraldBlueskyBot   (Bluesky)         *)
(* Python str values are sequences of Unicode code points; an Optional is  *)
(* a sequence of length 0 (None) or 1; times are whole seconds.            *)
(***************************************************************************)
EXTENDS Integers, Sequences, FiniteSets, TLC

\* ------------------------------------------------------------------ bounds
Slack    == 1      \* headline lengths tried on each side of a length limit
MaxLinks == 2      \* anchors on a listing page handed to the locator
MaxAppends == 2    \* appends made to a ledger checked on its own
MaxTorn  == 1      \* appends in one behaviour that raise after changing the file

\* --------------------------------------------------------------- constants
X_LIMIT        == 280
BSKY_LIMIT     == 300
MAX_AGE        == 43200
X_HOUR_FROM    == 7
X_HOUR_TO      == 23
BSKY_HOUR_FROM == 7
BSKY_HOUR_TO   == 20
\* the windows stated by the run docstrings
X_DOC_FROM     == 7
X_DOC_TO       == 20
BSKY_DOC_FROM  == 7
BSKY_DOC_TO    == 23

Bots == {"x", "bsky"}

\* the processes a behaviour follows, numbered in the order of their start;
\* each is one invocation of one of the two scripts
Procs == {1, 2}

\* ----------------------------------------------------------------- strings
SP == 32
NL == 10
CR == 13

BASE_URL == <<104,116,116,112,115,58,47,47,119,119,119,46,104,101,114,97,108,100,115,99,111,116,108,97,110,100,46,99,111,109>>
PATH_A   == <<47,112,111,108,105,116,105,99,115,47,49,50,51,52,53,54,55,56,46,97>>
PATH_B   == <<47,112,111,108,105,116,105,99,115,47,49,50,51,52,53,54,55,57,46,98>>

POSTED_URLS_FILE_X    == "posted_urls.txt"
POSTED_URLS_FILE_BSKY == "posted_urls.txt"

POSTED_URLS_FILE(b) == IF b = "x" THEN POSTED_URLS_FILE_X ELSE POSTED_URLS_FILE_BSKY

FileNames == {POSTED_URLS_FILE(b) : b \in Bots}

Min(a, b) == IF a < b THEN a ELSE b
Max(a, b) == IF a > b THEN a ELSE b

Fill(c, n) == [i \in 1..n |-> c]

None    == <<>>
Some(v) == <<v>>

\* s[:n] of Python, n of either sign
PySlicePrefix(s, n) ==
    IF n >= 0 THEN SubSeq(s, 1, Min(n, Len(s)))
    ELSE SubSeq(s, 1, Max(0, Len(s) + n))

\* str.isspace
Whitespace == (9..13) \cup (28..32) \cup {133, 160, 5760} \cup (8192..8202)
              \cup {8232, 8233, 8239, 8287, 12288}

RECURSIVE lstrip(_)
lstrip(s) == IF s # <<>> /\ Head(s) \in Whitespace THEN lstrip(Tail(s)) ELSE s

RECURSIVE rstrip(_)
rstrip(s) ==
    IF s # <<>> /\ s[Len(s)] \in Whitespace THEN rstrip(SubSeq(s, 1, Len(s) - 1)) ELSE s

\* str.strip()
strip(s) == rstrip(lstrip(s))

\* text-mode read: "\r\n" and "\r" become "\n"
universal_newlines(s) ==
    LET keep(i) == ~(s[i] = NL /\ i > 1 /\ s[i - 1] = CR)
        kept    == SelectSeq([i \in 1..Len(s) |-> i], keep)
    IN  [j \in 1..Len(kept) |-> IF s[kept[j]] = CR THEN NL ELSE s[kept[j]]]

\* the lines a file iterator yields, without their terminators
FileLines(content) ==
    LET c    == universal_newlines(content)
        ends == {i \in 1..Len(c) : c[i] = NL}
        from(i) == IF \E j \in ends : j < i
                   THEN 1 + CHOOSE j \in ends : j < i /\ \A k \in ends : k < i => k <= j
                   ELSE 1
        last == from(Len(c) + 1)
    IN  {SubSeq(c, from(i), i - 1) : i \in ends}
        \cup (IF last <= Len(c) THEN {SubSeq(c, last, Len(c))} ELSE {})

\* ------------------------------------------------------------------ ledger
NoFile == [exists |-> FALSE, content |-> <<>>]

\* the lines of a ledger file as written, before load strips them
raw_lines(file) == IF file.exists THEN FileLines(file.content) ELSE {}

load_posted_urls(file) ==
    IF ~file.exists THEN {} ELSE {strip(line) : line \in FileLines(file.content)}

\* line 50 / 55: open(..., 'a') creates the file when it is absent and
\* leaves what it holds
open_append(file) == [exists |-> TRUE, content |-> file.content]

\* lines 48-52 / 53-57, a call that returns: url + "\n" is added after what
\* the file holds
save_posted_url(file, url) ==
    [exists |-> TRUE, content |-> open_append(file).content \o url \o <<NL>>]

\* the outcomes of the write and the close of the with block, once the file
\* is open: the block raises with any number of the characters of
\* url + "\n" written, the whole line included, or it ends with the whole
\* line written
SaveOutcomes(url) ==
    {[written |-> k, raised |-> TRUE] : k \in 0..(Len(url) + 1)}
    \cup {[written |-> Len(url) + 1, raised |-> FALSE]}

\* the open ledger file after the with block has ended with outcome o
write_posted_url(file, url, o) ==
    [exists |-> TRUE,
     content |-> file.content \o SubSeq(url \o <<NL>>, 1, o.written)]

\* ------------------------------------------------------------------- guard
InWindowX(hour)    == X_HOUR_FROM <= hour /\ hour < X_HOUR_TO
InWindowBsky(hour) == BSKY_HOUR_FROM <= hour /\ hour < BSKY_HOUR_TO

should_run(b, hour) == IF b = "x" THEN InWindowX(hour) ELSE InWindowBsky(hour)

\* -------------------------------------------------------------------- gate
already_posted_never(url, posted) == FALSE

already_posted(url, posted) == url \in posted

missing_info_none_only(headline, published) ==
    IF headline = None THEN TRUE ELSE published = None

\* "not headline or not published": None and "" are falsy, a datetime never is
missing_info(headline, published) ==
    IF headline = None THEN TRUE
    ELSE IF headline[1] = <<>> THEN TRUE
    ELSE published = None

too_old_inclusive(now, published) == now - published >= MAX_AGE

too_old(now, published) == now - published > MAX_AGE

\* ----------------------------------------------------------------- compose
post_tweet_text(headline, url) == PySlicePrefix(headline \o <<SP>> \o url, X_LIMIT)

bsky_headline(headline, url) ==
    IF Len(headline \o <<SP>> \o url) > BSKY_LIMIT
    THEN PySlicePrefix(headline, BSKY_LIMIT - Len(url) - 1)
    ELSE headline

bsky_text(headline, url) == bsky_headline(headline, url) \o <<SP>> \o url

\* UTF-8 encoding of one code point; surrogates cannot be encoded
Surrogates == 55296..57343

utf8_char(c) ==
    IF c < 128 THEN <<c>>
    ELSE IF c < 2048 THEN <<192 + (c \div 64), 128 + (c % 64)>>
    ELSE IF c < 65536
         THEN <<224 + (c \div 4096), 128 + ((c \div 64) % 64), 128 + (c % 64)>>
    ELSE <<240 + (c \div 262144), 128 + ((c \div 4096) % 64),
           128 + ((c \div 64) % 64), 128 + (c % 64)>>

RECURSIVE utf8_encode(_)
utf8_encode(s) ==
    IF s = <<>> THEN <<>>
    ELSE IF Len(s) = 1 THEN utf8_char(s[1])
    ELSE LET m == Len(s) \div 2
         IN  utf8_encode(SubSeq(s, 1, m)) \o utf8_encode(SubSeq(s, m + 1, Len(s)))

can_encode(s) == \A i \in 1..Len(s) : s[i] \notin Surrogates

url_start_chars(headline, url) == Len(bsky_headline(headline, url)) + 1

url_start(headline, url) == Len(utf8_encode(bsky_headline(headline, url))) + 1

url_end(headline, url) == url_start(headline, url) + Len(utf8_encode(url))

bsky_facets(headline, url) ==
    << [byteStart |-> url_start(headline, url),
        byteEnd   |-> url_end(headline, url),
        uri       |-> url] >>


\* ------------------------------------------------------------- credentials
\* what the environment holds for a bot's publisher credentials
Creds == {"ok", "missing", "invalid"}

\* X: tweepy.Client(...) stores the keys and checks nothing.
\* Bluesky: ValueError when a variable is unset, and client.login raises
\* when the server rejects the handle or the password.
init_ok(b, c) == IF b = "x" THEN TRUE ELSE c = "ok"

\* create_tweet can return only with keys the server accepts; otherwise it
\* raises inside post_tweet's try
create_tweet_ok(c) == IF c = "ok" THEN BOOLEAN ELSE {FALSE}

\* --------------------------------------------------------------- link card
\* the preview image of the link card: the page names none, it is fetched
\* and uploaded, or the fetch or the upload raises
Images == {"none", "ok", "failed"}

embed_built_strict(image) == image # "failed"

\* lines 142-153: the inner try swallows an image failure, so the embed is
\* built for every outcome of the image
embed_built(image) == TRUE

\* ----------------------------------------------------------- post outcomes
\* post_tweet / post_to_bluesky return True only when create_tweet /
\* send_post returned and save_posted_url did not raise inside the same try
post_ret(publishOk, appendOk) == publishOk /\ appendOk

next_urls_retry(ret, us) == IF ret THEN Tail(us) ELSE us

\* the for loop: the next iteration takes the next candidate, whatever the
\* iteration before it did
next_urls(ret, us) == Tail(us)

next_pc_abort(ret, rest) == "done"

\* position of run after one loop iteration: break, next candidate, or end
next_pc(ret, rest) == IF ret \/ rest = <<>> THEN "done" ELSE "loop"

\* ------------------------------------------------------------ input spaces
URL_A    == BASE_URL \o PATH_A
URL_B    == BASE_URL \o PATH_B
URL_B_SP == URL_B \o <<SP>>      \* href with a trailing blank, kept by the locator

\* the article links the listing page can carry
URLs == {URL_A, URL_B_SP}

H_NEWS == <<78,101,119,115>>

Headlines == {<<>>, H_NEWS}

\* publication times, and clock readings 11h59m, 12h and 12h+1s later
Times == {1000000}
Nows  == {t + age : t \in Times, age \in {43140, MAX_AGE, MAX_AGE + 1}}
\* Europe/London hours on both sides of every window edge
Hours == {6, 7, 19, 20, 22, 23}

Range(s) == {s[i] : i \in 1..Len(s)}

\* list(urls): the distinct candidates in an arbitrary order
CandLists ==
    {s \in UNION {[1..n -> URLs] : n \in 0..Cardinality(URLs)} :
        \A i, j \in 1..Len(s) : i # j => s[i] # s[j]}

\* get_article_info results: the h1 text (possibly empty) or None, and the
\* parsed time or None; (None, None) is also what a failure returns
Infos ==
    {[headline |-> h, published |-> p] :
        h \in {None} \cup {Some(h) : h \in Headlines},
        p \in {None} \cup {Some(t) : t \in Times}}

\* ------------------------------------------------------------------- state
VARIABLES
    fs,            \* file name -> [exists, content]
    bot,           \* process -> the bot whose script it runs
    pc,            \* process -> "idle" | "loop" | "save" | "write" | "done" | "failed" | "exited"
    current_hour,  \* process -> Europe/London hour read by run
    posted_urls,   \* process -> set loaded by load_posted_urls in this run
    urls,          \* process -> candidates from the one the for loop is at onwards
    creds,         \* process -> publisher credentials in the process environment
    pub,           \* bot -> URL -> the Publisher has confirmed a post of it
    log,           \* process -> what its run has done
    lastEval,      \* what get_article_info and the clock gave the step just taken
    lastPost,      \* the post the step just taken handed to the Publisher
    torn,          \* writes so far that raised after changing the file
    fn_args,       \* inputs of the functions checked on their own
    fn_ret         \* their outputs

procVars == <<bot, pc, current_hour, posted_urls, urls, creds, pub, log, lastEval,
              lastPost, torn>>

vars == <<fs, bot, pc, current_hour, posted_urls, urls, creds, pub, log, lastEval,
          lastPost, torn, fn_args, fn_ret>>

NoLog ==
    [read |-> FALSE, listing |-> FALSE, cands |-> <<>>, skipped |-> {},
     fetched |-> {}, attempts |-> <<>>, published |-> <<>>, appended |-> <<>>,
     ended |-> "none", alone |-> FALSE]

NoEval == [proc |-> 0, url |-> <<>>, headline |-> None, published |-> None, now |-> 0]
NoPost == [text |-> <<>>, facets |-> <<>>, card |-> None, image |-> "none",
           thumb |-> FALSE, sent |-> FALSE]
NoArgs == [headline |-> <<>>, url |-> <<>>]
NoRet  == [fn |-> "none", text |-> <<>>, facets |-> <<>>]

\* no process has been started and the Publisher has confirmed nothing
NotStarted ==
    /\ bot = [p \in Procs |-> "none"]
    /\ pc = [p \in Procs |-> "idle"]
    /\ current_hour = [p \in Procs |-> 0]
    /\ posted_urls = [p \in Procs |-> {}]
    /\ urls = [p \in Procs |-> <<>>]
    /\ creds = [p \in Procs |-> "unset"]
    /\ pub = [b \in Bots |-> [u \in URLs |-> FALSE]]
    /\ log = [p \in Procs |-> NoLog]
    /\ lastEval = NoEval
    /\ lastPost = NoPost
    /\ torn = 0

Init ==
    /\ fs = [n \in FileNames |-> NoFile]
    /\ NotStarted
    /\ fn_args = NoArgs
    /\ fn_ret = NoRet

\* nothing in either script waits for or looks at another process: a process
\* can be started whatever the others are doing (the numbering follows the
\* order of the starts)
CanStart(p) == pc[p] = "idle" /\ \A q \in Procs : q < p => pc[q] # "idle"

\* no other process is running
Alone(p) == \A q \in Procs \ {p} : pc[q] \in {"idle", "exited"}

\* what a run notes at its start
StartLog(p) == [NoLog EXCEPT !.alone = Alone(p)]

\* a step that evaluates no article and composes no post
NoArticle == lastEval' = NoEval /\ lastPost' = NoPost

\* __main__ with __init__, lines 30-36 / 30-41: the constructor returns
Construct(p, b) ==
    /\ bot' = [bot EXCEPT ![p] = b]
    /\ \E c \in Creds : init_ok(b, c) /\ creds' = [creds EXCEPT ![p] = c]

\* __main__ with __init__, lines 30-41 of the Bluesky bot: the constructor
\* raises and the exception leaves the process
ConstructFail(p) ==
    /\ CanStart(p)
    /\ \E b \in Bots, c \in Creds :
        /\ ~init_ok(b, c)
        /\ bot' = [bot EXCEPT ![p] = b]
        /\ creds' = [creds EXCEPT ![p] = c]
    /\ pc' = [pc EXCEPT ![p] = "failed"]
    /\ log' = [log EXCEPT ![p] = StartLog(p)]
    /\ NoArticle
    /\ UNCHANGED <<torn, fs, current_hour, posted_urls, urls, pub, fn_args, fn_ret>>

\* run, lines 109-121 / 164-176: the hour is outside the coded window
GuardSkip(p) ==
    /\ CanStart(p)
    /\ \E b \in Bots, hour \in Hours :
        /\ Construct(p, b)
        /\ ~should_run(b, hour)
        /\ current_hour' = [current_hour EXCEPT ![p] = hour]
    /\ pc' = [pc EXCEPT ![p] = "done"]
    /\ log' = [log EXCEPT ![p] = [StartLog(p) EXCEPT !.ended = "guard"]]
    /\ NoArticle
    /\ UNCHANGED <<torn, fs, urls, posted_urls, pub, fn_args, fn_ret>>

\* run, lines 109-125 / 164-180: guard passed, ledger loaded, listing fetched
StartRun(p) ==
    /\ CanStart(p)
    /\ \E b \in Bots, hour \in Hours :
        /\ Construct(p, b)
        /\ should_run(b, hour)
        /\ current_hour' = [current_hour EXCEPT ![p] = hour]
        /\ posted_urls' = [posted_urls EXCEPT ![p] = load_posted_urls(fs[POSTED_URLS_FILE(b)])]
    /\ \E cands \in CandLists :
        /\ urls' = [urls EXCEPT ![p] = cands]
        /\ pc' = [pc EXCEPT ![p] = next_pc(FALSE, cands)]
        /\ log' = [log EXCEPT ![p] =
                     [StartLog(p) EXCEPT !.read = TRUE, !.listing = TRUE, !.cands = cands,
                                   !.ended = IF cands = <<>> THEN "empty" ELSE "none"]]
    /\ NoArticle
    /\ UNCHANGED <<torn, fs, pub, fn_args, fn_ret>>

\* run, line 124 / 179: the ledger file exists and open or the read raises
\* in load_posted_urls; nothing in run catches it
LoadFail(p) ==
    /\ CanStart(p)
    /\ \E b \in Bots, hour \in Hours :
        /\ Construct(p, b)
        /\ fs[POSTED_URLS_FILE(b)].exists
        /\ should_run(b, hour)
        /\ current_hour' = [current_hour EXCEPT ![p] = hour]
    /\ pc' = [pc EXCEPT ![p] = "failed"]
    /\ log' = [log EXCEPT ![p] = [StartLog(p) EXCEPT !.read = TRUE]]
    /\ NoArticle
    /\ UNCHANGED <<torn, fs, posted_urls, urls, pub, fn_args, fn_ret>>

InLoop(p) == pc[p] = "loop" /\ urls[p] # <<>>

\* bookkeeping shared by the iterations that do not post
Continue(p, logNew) ==
    LET rest == next_urls(FALSE, urls[p]) IN
    /\ urls' = [urls EXCEPT ![p] = rest]
    /\ pc' = [pc EXCEPT ![p] = next_pc(FALSE, rest)]
    /\ log' = [log EXCEPT ![p] =
                 [logNew EXCEPT !.ended = IF rest = <<>> THEN "exhausted" ELSE "none"]]
    /\ lastPost' = NoPost
    /\ UNCHANGED <<torn, fs, bot, current_hour, posted_urls, creds, pub, fn_args, fn_ret>>

\* lines 126-128 / 181-183
SkipPosted(p) ==
    /\ InLoop(p)
    /\ already_posted(Head(urls[p]), posted_urls[p])
    /\ Continue(p, [log[p] EXCEPT !.skipped = @ \cup {Head(urls[p])}])
    /\ lastEval' = NoEval

\* lines 129-132 / 184-187
SkipMissing(p) ==
    /\ InLoop(p)
    /\ ~already_posted(Head(urls[p]), posted_urls[p])
    /\ \E info \in Infos :
        /\ missing_info(info.headline, info.published)
        /\ lastEval' = [proc |-> p, url |-> Head(urls[p]), headline |-> info.headline,
                        published |-> info.published, now |-> 0]
    /\ Continue(p, [log[p] EXCEPT !.fetched = @ \cup {Head(urls[p])}])

\* lines 133-136 / 188-191
SkipOld(p) ==
    /\ InLoop(p)
    /\ ~already_posted(Head(urls[p]), posted_urls[p])
    /\ \E info \in Infos, now \in Nows :
        /\ ~missing_info(info.headline, info.published)
        /\ too_old(now, info.published[1])
        /\ lastEval' = [proc |-> p, url |-> Head(urls[p]), headline |-> info.headline,
                        published |-> info.published, now |-> now]
    /\ Continue(p, [log[p] EXCEPT !.fetched = @ \cup {Head(urls[p])}])

\* bookkeeping shared by the two posting iterations, up to the answer of the
\* Publisher: a confirmed post leaves the iteration inside the post function,
\* before save_posted_url; anything else makes the function return False
Published(p, url, publishOk) ==
    LET ret  == post_ret(publishOk, FALSE)
        rest == next_urls(ret, urls[p])
    IN
    /\ pub' = [pub EXCEPT ![bot[p]][url] = @ \/ publishOk]
    /\ urls' = [urls EXCEPT ![p] = IF publishOk THEN @ ELSE rest]
    /\ pc' = [pc EXCEPT ![p] = IF publishOk THEN "save" ELSE next_pc(ret, rest)]
    /\ log' = [log EXCEPT ![p] =
                 [@ EXCEPT !.fetched = @ \cup {url},
                           !.attempts = Append(@, url),
                           !.published = IF publishOk THEN Append(@, url) ELSE @,
                           !.ended = IF ~publishOk /\ rest = <<>> THEN "exhausted"
                                     ELSE "none"]]
    /\ UNCHANGED <<torn, fs, bot, current_hour, posted_urls, creds, fn_args, fn_ret>>

\* lines 137-139 with post_tweet, lines 94-98: compose and create_tweet
PostTweet(p) ==
    /\ bot[p] = "x"
    /\ InLoop(p)
    /\ ~already_posted(Head(urls[p]), posted_urls[p])
    /\ \E info \in Infos, now \in Nows, publishOk \in create_tweet_ok(creds[p]) :
        /\ ~missing_info(info.headline, info.published)
        /\ ~too_old(now, info.published[1])
        /\ lastEval' = [proc |-> p, url |-> Head(urls[p]), headline |-> info.headline,
                        published |-> info.published, now |-> now]
        /\ lastPost' = [text |-> post_tweet_text(info.headline[1], Head(urls[p])),
                        facets |-> <<>>, card |-> None, image |-> "none",
                        thumb |-> FALSE, sent |-> TRUE]
        /\ Published(p, Head(urls[p]), publishOk)

\* lines 192-194 with post_to_bluesky, lines 99-157: compose, link card and
\* send_post
PostToBluesky(p) ==
    /\ bot[p] = "bsky"
    /\ InLoop(p)
    /\ ~already_posted(Head(urls[p]), posted_urls[p])
    /\ \E info \in Infos, now \in Nows, cardOk \in BOOLEAN, image \in Images,
          sendOk \in BOOLEAN :
        LET url       == Head(urls[p])
            \* lines 111-139: the facet was built and the page gave the link card
            external  == cardOk /\ can_encode(info.headline[1]) /\ can_encode(url)
            img       == IF external THEN image ELSE "none"
            \* send_post is reached unless something raised before it
            sent      == external /\ embed_built(img)
            thumb     == sent /\ img = "ok"
            publishOk == sent /\ sendOk
        IN
        /\ ~missing_info(info.headline, info.published)
        /\ ~too_old(now, info.published[1])
        /\ lastEval' = [proc |-> p, url |-> url, headline |-> info.headline,
                        published |-> info.published, now |-> now]
        /\ lastPost' = [text |-> bsky_text(info.headline[1], url),
                        facets |-> bsky_facets(info.headline[1], url),
                        card |-> IF external THEN Some(url) ELSE None,
                        image |-> img, thumb |-> thumb, sent |-> sent]
        /\ Published(p, url, publishOk)

\* save_posted_url, line 50 / 55, inside post_tweet, lines 99-107, or
\* post_to_bluesky, lines 158-162: open(..., 'a') for the post the Publisher
\* has just confirmed. When it returns the file exists; when it raises the
\* post function returns False and run takes the next candidate
SaveOpen(p) ==
    /\ pc[p] = "save"
    /\ \E opened \in BOOLEAN :
        LET name == POSTED_URLS_FILE(bot[p])
            ret  == post_ret(TRUE, FALSE)
            rest == next_urls(ret, urls[p])
        IN
        /\ fs' = [fs EXCEPT ![name] = IF opened THEN open_append(@) ELSE @]
        /\ urls' = [urls EXCEPT ![p] = IF opened THEN @ ELSE rest]
        /\ pc' = [pc EXCEPT ![p] = IF opened THEN "write" ELSE next_pc(ret, rest)]
        /\ log' = [log EXCEPT ![p].ended =
                     IF ~opened /\ rest = <<>> THEN "exhausted" ELSE "none"]
    /\ NoArticle
    /\ UNCHANGED <<torn, bot, current_hour, posted_urls, creds, pub, fn_args, fn_ret>>

\* save_posted_url, lines 51-52 / 56-57, with lines 137-141 / 192-196 of run:
\* the write and the close of the with block, the value the post function
\* returns, and the break or the next iteration
SaveWrite(p) ==
    /\ pc[p] = "write"
    /\ \E o \in SaveOutcomes(Head(urls[p])) :
        LET url  == Head(urls[p])
            name == POSTED_URLS_FILE(bot[p])
            ret  == post_ret(TRUE, ~o.raised)
            rest == next_urls(ret, urls[p])
            cut  == IF o.raised /\ o.written > 0 THEN 1 ELSE 0
        IN
        /\ torn + cut <= MaxTorn
        /\ torn' = torn + cut
        /\ fs' = [fs EXCEPT ![name] = write_posted_url(@, url, o)]
        /\ urls' = [urls EXCEPT ![p] = rest]
        /\ pc' = [pc EXCEPT ![p] = next_pc(ret, rest)]
        /\ log' = [log EXCEPT ![p] =
                     [@ EXCEPT !.appended = IF o.raised THEN @ ELSE Append(@, url),
                               !.ended = IF ret THEN "posted"
                                         ELSE IF rest = <<>> THEN "exhausted"
                                         ELSE "none"]]
    /\ NoArticle
    /\ UNCHANGED <<bot, current_hour, posted_urls, creds, pub, fn_args, fn_ret>>

\* __main__, lines 144-148 / 199-203: run has returned or an exception has
\* propagated, the process exits
Exit(p) ==
    /\ pc[p] \in {"done", "failed"}
    /\ pc' = [pc EXCEPT ![p] = "exited"]
    /\ bot' = [bot EXCEPT ![p] = "none"]
    /\ creds' = [creds EXCEPT ![p] = "unset"]
    /\ current_hour' = [current_hour EXCEPT ![p] = 0]
    /\ posted_urls' = [posted_urls EXCEPT ![p] = {}]
    /\ urls' = [urls EXCEPT ![p] = <<>>]
    /\ log' = [log EXCEPT ![p] = NoLog]
    /\ NoArticle
    /\ UNCHANGED <<torn, fs, pub, fn_args, fn_ret>>

\* the processes take their steps in any order, with any inputs
Next ==
    \E p \in Procs :
        \/ ConstructFail(p)
        \/ GuardSkip(p)
        \/ StartRun(p)
        \/ LoadFail(p)
        \/ SkipPosted(p)
        \/ SkipMissing(p)
        \/ SkipOld(p)
        \/ PostTweet(p)
        \/ PostToBluesky(p)
        \/ SaveOpen(p)
        \/ SaveWrite(p)
        \/ Exit(p)

Spec == Init /\ [][Next]_vars

\* ----------------------------------------------------------- input classes
\* A specification that is explored in full leaves the scheduling free and
\* narrows the inputs the environment gives.

\* the characters of url + "\n" a failing write is followed to
TornSample(url) == {0, 10, Len(url), Len(url) + 1}

\* every failing write of the step stops at one of the sampled lengths
TornSampled ==
    \A n \in FileNames :
        \/ fs'[n].content = fs[n].content
        \/ \E u \in URLs : \E k \in TornSample(u) :
              fs'[n].content = fs[n].content \o SubSeq(u \o <<NL>>, 1, k)

\* the hour is the first of the coded window or the one before it, and the
\* credentials are good unless the constructor rejects them
PlainStart ==
    \A p \in Procs :
        /\ current_hour'[p] \in {0, X_HOUR_FROM - 1, X_HOUR_FROM}
        /\ creds'[p] \in {"unset", "ok"} \/ pc'[p] = "failed"

\* an article page gives neither headline nor time or gives both, and names
\* no preview image; the clock readings are those on the two sides of MAX_AGE
PlainArticle ==
    /\ lastEval'.now \in {0} \cup {t + age : t \in Times, age \in {MAX_AGE, MAX_AGE + 1}}
    /\ lastEval'.published = None <=> lastEval'.headline = None
    /\ lastPost'.image = "none"

\* the listing page carries at most one article link
OneCandidate == \A p \in Procs : Len(log'[p].cands) <= 1

\* the flow of runs: every listing, plain starts and articles
FlowInputs == PlainStart /\ PlainArticle /\ TornSampled

NextFlow ==
    \E p \in Procs :
        \/ ConstructFail(p) /\ FlowInputs
        \/ GuardSkip(p) /\ FlowInputs
        \/ StartRun(p) /\ FlowInputs
        \/ LoadFail(p) /\ FlowInputs
        \/ SkipPosted(p) /\ FlowInputs
        \/ SkipMissing(p) /\ FlowInputs
        \/ SkipOld(p) /\ FlowInputs
        \/ PostTweet(p) /\ FlowInputs
        \/ PostToBluesky(p) /\ FlowInputs
        \/ SaveOpen(p) /\ FlowInputs
        \/ SaveWrite(p) /\ FlowInputs
        \/ Exit(p) /\ FlowInputs

SpecFlow == Init /\ [][NextFlow]_vars

\* the gate and the composer: every article, clock reading, link card and
\* preview image
GateInputs == PlainStart /\ TornSampled /\ OneCandidate

NextGate ==
    \E p \in Procs :
        \/ ConstructFail(p) /\ GateInputs
        \/ GuardSkip(p) /\ GateInputs
        \/ StartRun(p) /\ GateInputs
        \/ LoadFail(p) /\ GateInputs
        \/ SkipPosted(p) /\ GateInputs
        \/ SkipMissing(p) /\ GateInputs
        \/ SkipOld(p) /\ GateInputs
        \/ PostTweet(p) /\ GateInputs
        \/ PostToBluesky(p) /\ GateInputs
        \/ SaveOpen(p) /\ GateInputs
        \/ SaveWrite(p) /\ GateInputs
        \/ Exit(p) /\ GateInputs

SpecGate == Init /\ [][NextGate]_vars

\* the environment of a process: every hour, every state of the credentials
\* and every length a failing write can stop at
EnvInputs == PlainArticle /\ OneCandidate

NextEnv ==
    \E p \in Procs :
        \/ ConstructFail(p) /\ EnvInputs
        \/ GuardSkip(p) /\ EnvInputs
        \/ StartRun(p) /\ EnvInputs
        \/ LoadFail(p) /\ EnvInputs
        \/ SkipPosted(p) /\ EnvInputs
        \/ SkipMissing(p) /\ EnvInputs
        \/ SkipOld(p) /\ EnvInputs
        \/ PostTweet(p) /\ EnvInputs
        \/ PostToBluesky(p) /\ EnvInputs
        \/ SaveOpen(p) /\ EnvInputs
        \/ SaveWrite(p) /\ EnvInputs
        \/ Exit(p) /\ EnvInputs

SpecEnv == Init /\ [][NextEnv]_vars

\* ------------------------------------------- the compose step on its own
URL_LONG == URL_A \o Fill(97, 260)      \* a slug longer than either limit

ComposeURLs == URLs \cup {URL_LONG}

FillChars == {97, 233, 8364, 128512}     \* a, e-acute, euro sign, an emoji

\* headline lengths: short ones, and those around each platform limit
HeadlineLens(url) ==
    {0, 4} \cup {Max(0, limit - Len(url) - 1 + d) :
                    limit \in {X_LIMIT, BSKY_LIMIT}, d \in (0 - Slack)..Slack}

ComposeInputs ==
    UNION {{[headline |-> Fill(c, n), url |-> u] : c \in FillChars, n \in HeadlineLens(u)} :
              u \in ComposeURLs}

InitCompose ==
    /\ fs = [n \in FileNames |-> NoFile]
    /\ NotStarted
    /\ fn_args \in ComposeInputs
    /\ fn_ret = NoRet

\* post_tweet, line 96
ComposeTweet ==
    /\ fn_ret = NoRet
    /\ fn_ret' = [fn |-> "post_tweet",
                  text |-> post_tweet_text(fn_args.headline, fn_args.url),
                  facets |-> <<>>]
    /\ UNCHANGED <<fs, procVars, fn_args>>

\* post_to_bluesky, lines 101-117
ComposeBluesky ==
    /\ fn_ret = NoRet
    /\ fn_ret' = [fn |-> "post_to_bluesky",
                  text |-> bsky_text(fn_args.headline, fn_args.url),
                  facets |-> bsky_facets(fn_args.headline, fn_args.url)]
    /\ UNCHANGED <<fs, procVars, fn_args>>

NextCompose == ComposeTweet \/ ComposeBluesky

SpecCompose == InitCompose /\ [][NextCompose]_vars

\* ------------------------------------------------ the locator on its own
SLASH == 47
DOT   == 46
HASH  == 35
QMARK == 63

\* the code points that are digit zero of a decimal-digit block (category Nd),
\* each followed by its digits one to nine
DigitZeros ==
    {48, 1632, 1776, 1984, 2406, 2534, 2662, 2790, 2918, 3046, 3174, 3302,
     3430, 3558, 3664, 3792, 3872, 4160, 4240, 6112, 6160, 6470, 6608, 6784,
     6800, 6992, 7088, 7232, 7248, 42528, 43216, 43264, 43472, 43504, 43600,
     44016, 65296, 66720, 68912, 69734, 69872, 69942, 70096, 70384, 70736,
     70864, 71248, 71360, 71472, 71904, 72016, 72784, 73040, 73120, 92768,
     92864, 93008, 120782, 120792, 120802, 120812, 120822, 123200, 123632,
     125264, 130032}

\* \d of a str pattern: the decimal digits of every script
Digits == UNION {z..(z + 9) : z \in DigitZeros}

\* s.split(c)[0]
split_first(s, c) ==
    IF \E i \in 1..Len(s) : s[i] = c
    THEN SubSeq(s, 1, (CHOOSE i \in 1..Len(s) :
                          s[i] = c /\ \A j \in 1..(i - 1) : s[j] # c) - 1)
    ELSE s

\* href.startswith('/')
startswith_slash(s) == s # <<>> /\ s[1] = SLASH

\* re.search(r'/\d{8,}\.', s)
has_article_id(s) ==
    \E i \in 1..Len(s), n \in 8..Len(s) :
        /\ i + n + 1 <= Len(s)
        /\ s[i] = SLASH
        /\ \A k \in 1..n : s[i + k] \in Digits
        /\ s[i + n + 1] = DOT

\* s.rstrip('/')
RECURSIVE rstrip_slash(_)
rstrip_slash(s) ==
    IF s # <<>> /\ s[Len(s)] = SLASH THEN rstrip_slash(SubSeq(s, 1, Len(s) - 1)) ELSE s

\* the simple lowercase mapping of str.lower: <<first, last, step, delta>>
\* maps first, first + step, ..., last to the code point delta further on
LowerRuns ==
    {<<65,90,1,32>>, <<192,214,1,32>>, <<216,222,1,32>>, <<256,302,2,1>>,
     <<306,310,2,1>>, <<313,327,2,1>>, <<330,374,2,1>>, <<376,376,1,-121>>,
     <<377,381,2,1>>, <<385,385,1,210>>, <<386,388,2,1>>, <<390,390,1,206>>,
     <<391,391,1,1>>, <<393,394,1,205>>, <<395,395,1,1>>, <<398,398,1,79>>,
     <<399,399,1,202>>, <<400,400,1,203>>, <<401,401,1,1>>,
     <<403,403,1,205>>, <<404,404,1,207>>, <<406,406,1,211>>,
     <<407,407,1,209>>, <<408,408,1,1>>, <<412,412,1,211>>,
     <<413,413,1,213>>, <<415,415,1,214>>, <<416,420,2,1>>,
     <<422,422,1,218>>, <<423,423,1,1>>, <<425,425,1,218>>, <<428,428,1,1>>,
     <<430,430,1,218>>, <<431,431,1,1>>, <<433,434,1,217>>, <<435,437,2,1>>,
     <<439,439,1,219>>, <<440,440,1,1>>, <<444,444,1,1>>, <<452,452,1,2>>,
     <<453,453,1,1>>, <<455,455,1,2>>, <<456,456,1,1>>, <<458,458,1,2>>,
     <<459,475,2,1>>, <<478,494,2,1>>, <<497,497,1,2>>, <<498,500,2,1>>,
     <<502,502,1,-97>>, <<503,503,1,-56>>, <<504,542,2,1>>,
     <<544,544,1,-130>>, <<546,562,2,1>>, <<570,570,1,10795>>,
     <<571,571,1,1>>, <<573,573,1,-163>>, <<574,574,1,10792>>,
     <<577,577,1,1>>, <<579,579,1,-195>>, <<580,580,1,69>>, <<581,581,1,71>>,
     <<582,590,2,1>>, <<880,882,2,1>>, <<886,886,1,1>>, <<895,895,1,116>>,
     <<902,902,1,38>>, <<904,906,1,37>>, <<908,908,1,64>>, <<910,911,1,63>>,
     <<913,929,1,32>>, <<931,939,1,32>>, <<975,975,1,8>>, <<984,1006,2,1>>,
     <<1012,1012,1,-60>>, <<1015,1015,1,1>>, <<1017,1017,1,-7>>,
     <<1018,1018,1,1>>, <<1021,1023,1,-130>>, <<1024,1039,1,80>>,
     <<1040,1071,1,32>>, <<1120,1152,2,1>>, <<1162,1214,2,1>>,
     <<1216,1216,1,15>>, <<1217,1229,2,1>>, <<1232,1326,2,1>>,
     <<1329,1366,1,48>>, <<4256,4293,1,7264>>, <<4295,4295,1,7264>>,
     <<4301,4301,1,7264>>, <<5024,5103,1,38864>>, <<5104,5109,1,8>>,
     <<7312,7354,1,-3008>>, <<7357,7359,1,-3008>>, <<7680,7828,2,1>>,
     <<7838,7838,1,-7615>>, <<7840,7934,2,1>>, <<7944,7951,1,-8>>,
     <<7960,7965,1,-8>>, <<7976,7983,1,-8>>, <<7992,7999,1,-8>>,
     <<8008,8013,1,-8>>, <<8025,8031,2,-8>>, <<8040,8047,1,-8>>,
     <<8072,8079,1,-8>>, <<8088,8095,1,-8>>, <<8104,8111,1,-8>>,
     <<8120,8121,1,-8>>, <<8122,8123,1,-74>>, <<8124,8124,1,-9>>,
     <<8136,8139,1,-86>>, <<8140,8140,1,-9>>, <<8152,8153,1,-8>>,
     <<8154,8155,1,-100>>, <<8168,8169,1,-8>>, <<8170,8171,1,-112>>,
     <<8172,8172,1,-7>>, <<8184,8185,1,-128>>, <<8186,8187,1,-126>>,
     <<8188,8188,1,-9>>, <<8486,8486,1,-7517>>, <<8490,8490,1,-8383>>,
     <<8491,8491,1,-8262>>, <<8498,8498,1,28>>, <<8544,8559,1,16>>,
     <<8579,8579,1,1>>, <<9398,9423,1,26>>, <<11264,11311,1,48>>,
     <<11360,11360,1,1>>, <<11362,11362,1,-10743>>, <<11363,11363,1,-3814>>,
     <<11364,11364,1,-10727>>, <<11367,11371,2,1>>, <<11373,11373,1,-10780>>,
     <<11374,11374,1,-10749>>, <<11375,11375,1,-10783>>,
     <<11376,11376,1,-10782>>, <<11378,11378,1,1>>, <<11381,11381,1,1>>,
     <<11390,11391,1,-10815>>, <<11392,11490,2,1>>, <<11499,11501,2,1>>,
     <<11506,11506,1,1>>, <<42560,42604,2,1>>, <<42624,42650,2,1>>,
     <<42786,42798,2,1>>, <<42802,42862,2,1>>, <<42873,42875,2,1>>,
     <<42877,42877,1,-35332>>, <<42878,42886,2,1>>, <<42891,42891,1,1>>,
     <<42893,42893,1,-42280>>, <<42896,42898,2,1>>, <<42902,42920,2,1>>,
     <<42922,42922,1,-42308>>, <<42923,42923,1,-42319>>,
     <<42924,42924,1,-42315>>, <<42925,42925,1,-42305>>,
     <<42926,42926,1,-42308>>, <<42928,42928,1,-42258>>,
     <<42929,42929,1,-42282>>, <<42930,42930,1,-42261>>,
     <<42931,42931,1,928>>, <<42932,42946,2,1>>, <<42948,42948,1,-48>>,
     <<42949,42949,1,-42307>>, <<42950,42950,1,-35384>>, <<42951,42953,2,1>>,
     <<42960,42960,1,1>>, <<42966,42968,2,1>>, <<42997,42997,1,1>>,
     <<65313,65338,1,32>>, <<66560,66599,1,40>>, <<66736,66771,1,40>>,
     <<66928,66938,1,39>>, <<66940,66954,1,39>>, <<66956,66962,1,39>>,
     <<66964,66965,1,39>>, <<68736,68786,1,64>>, <<71840,71871,1,32>>,
     <<93760,93791,1,32>>, <<125184,125217,1,34>>}

\* the case-ignorable code points, as <<first, last>> ranges
CaseIgnorableRanges ==
    {<<39,39>>, <<46,46>>, <<58,58>>, <<94,94>>, <<96,96>>, <<168,168>>,
     <<173,173>>, <<175,175>>, <<180,180>>, <<183,184>>, <<688,879>>,
     <<884,885>>, <<890,890>>, <<900,901>>, <<903,903>>, <<1155,1161>>,
     <<1369,1369>>, <<1375,1375>>, <<1425,1469>>, <<1471,1471>>,
     <<1473,1474>>, <<1476,1477>>, <<1479,1479>>, <<1524,1524>>,
     <<1536,1541>>, <<1552,1562>>, <<1564,1564>>, <<1600,1600>>,
     <<1611,1631>>, <<1648,1648>>, <<1750,1757>>, <<1759,1768>>,
     <<1770,1773>>, <<1807,1807>>, <<1809,1809>>, <<1840,1866>>,
     <<1958,1968>>, <<2027,2037>>, <<2042,2042>>, <<2045,2045>>,
     <<2070,2093>>, <<2137,2139>>, <<2184,2184>>, <<2192,2193>>,
     <<2200,2207>>, <<2249,2306>>, <<2362,2362>>, <<2364,2364>>,
     <<2369,2376>>, <<2381,2381>>, <<2385,2391>>, <<2402,2403>>,
     <<2417,2417>>, <<2433,2433>>, <<2492,2492>>, <<2497,2500>>,
     <<2509,2509>>, <<2530,2531>>, <<2558,2558>>, <<2561,2562>>,
     <<2620,2620>>, <<2625,2626>>, <<2631,2632>>, <<2635,2637>>,
     <<2641,2641>>, <<2672,2673>>, <<2677,2677>>, <<2689,2690>>,
     <<2748,2748>>, <<2753,2757>>, <<2759,2760>>, <<2765,2765>>,
     <<2786,2787>>, <<2810,2815>>, <<2817,2817>>, <<2876,2876>>,
     <<2879,2879>>, <<2881,2884>>, <<2893,2893>>, <<2901,2902>>,
     <<2914,2915>>, <<2946,2946>>, <<3008,3008>>, <<3021,3021>>,
     <<3072,3072>>, <<3076,3076>>, <<3132,3132>>, <<3134,3136>>,
     <<3142,3144>>, <<3146,3149>>, <<3157,3158>>, <<3170,3171>>,
     <<3201,3201>>, <<3260,3260>>, <<3263,3263>>, <<3270,3270>>,
     <<3276,3277>>, <<3298,3299>>, <<3328,3329>>, <<3387,3388>>,
     <<3393,3396>>, <<3405,3405>>, <<3426,3427>>, <<3457,3457>>,
     <<3530,3530>>, <<3538,3540>>, <<3542,3542>>, <<3633,3633>>,
     <<3636,3642>>, <<3654,3662>>, <<3761,3761>>, <<3764,3772>>,
     <<3782,3782>>, <<3784,3789>>, <<3864,3865>>, <<3893,3893>>,
     <<3895,3895>>, <<3897,3897>>, <<3953,3966>>, <<3968,3972>>,
     <<3974,3975>>, <<3981,3991>>, <<3993,4028>>, <<4038,4038>>,
     <<4141,4144>>, <<4146,4151>>, <<4153,4154>>, <<4157,4158>>,
     <<4184,4185>>, <<4190,4192>>, <<4209,4212>>, <<4226,4226>>,
     <<4229,4230>>, <<4237,4237>>, <<4253,4253>>, <<4348,4348>>,
     <<4957,4959>>, <<5906,5908>>, <<5938,5939>>, <<5970,5971>>,
     <<6002,6003>>, <<6068,6069>>, <<6071,6077>>, <<6086,6086>>,
     <<6089,6099>>, <<6103,6103>>, <<6109,6109>>, <<6155,6159>>,
     <<6211,6211>>, <<6277,6278>>, <<6313,6313>>, <<6432,6434>>,
     <<6439,6440>>, <<6450,6450>>, <<6457,6459>>, <<6679,6680>>,
     <<6683,6683>>, <<6742,6742>>, <<6744,6750>>, <<6752,6752>>,
     <<6754,6754>>, <<6757,6764>>, <<6771,6780>>, <<6783,6783>>,
     <<6823,6823>>, <<6832,6862>>, <<6912,6915>>, <<6964,6964>>,
     <<6966,6970>>, <<6972,6972>>, <<6978,6978>>, <<7019,7027>>,
     <<7040,7041>>, <<7074,7077>>, <<7080,7081>>, <<7083,7085>>,
     <<7142,7142>>, <<7144,7145>>, <<7149,7149>>, <<7151,7153>>,
     <<7212,7219>>, <<7222,7223>>, <<7288,7293>>, <<7376,7378>>,
     <<7380,7392>>, <<7394,7400>>, <<7405,7405>>, <<7412,7412>>,
     <<7416,7417>>, <<7468,7530>>, <<7544,7544>>, <<7579,7679>>,
     <<8125,8125>>, <<8127,8129>>, <<8141,8143>>, <<8157,8159>>,
     <<8173,8175>>, <<8189,8190>>, <<8203,8207>>, <<8216,8217>>,
     <<8228,8228>>, <<8231,8231>>, <<8234,8238>>, <<8288,8292>>,
     <<8294,8303>>, <<8305,8305>>, <<8319,8319>>, <<8336,8348>>,
     <<8400,8432>>, <<11388,11389>>, <<11503,11505>>, <<11631,11631>>,
     <<11647,11647>>, <<11744,11775>>, <<11823,11823>>, <<12293,12293>>,
     <<12330,12333>>, <<12337,12341>>, <<12347,12347>>, <<12441,12446>>,
     <<12540,12542>>, <<40981,40981>>, <<42232,42237>>, <<42508,42508>>,
     <<42607,42610>>, <<42612,42621>>, <<42623,42623>>, <<42652,42655>>,
     <<42736,42737>>, <<42752,42785>>, <<42864,42864>>, <<42888,42890>>,
     <<42994,42996>>, <<43000,43001>>, <<43010,43010>>, <<43014,43014>>,
     <<43019,43019>>, <<43045,43046>>, <<43052,43052>>, <<43204,43205>>,
     <<43232,43249>>, <<43263,43263>>, <<43302,43309>>, <<43335,43345>>,
     <<43392,43394>>, <<43443,43443>>, <<43446,43449>>, <<43452,43453>>,
     <<43471,43471>>, <<43493,43494>>, <<43561,43566>>, <<43569,43570>>,
     <<43573,43574>>, <<43587,43587>>, <<43596,43596>>, <<43632,43632>>,
     <<43644,43644>>, <<43696,43696>>, <<43698,43700>>, <<43703,43704>>,
     <<43710,43711>>, <<43713,43713>>, <<43741,43741>>, <<43756,43757>>,
     <<43763,43764>>, <<43766,43766>>, <<43867,43871>>, <<43881,43883>>,
     <<44005,44005>>, <<44008,44008>>, <<44013,44013>>, <<64286,64286>>,
     <<64434,64450>>, <<65024,65039>>, <<65043,65043>>, <<65056,65071>>,
     <<65106,65106>>, <<65109,65109>>, <<65279,65279>>, <<65287,65287>>,
     <<65294,65294>>, <<65306,65306>>, <<65342,65342>>, <<65344,65344>>,
     <<65392,65392>>, <<65438,65439>>, <<65507,65507>>, <<65529,65531>>,
     <<66045,66045>>, <<66272,66272>>, <<66422,66426>>, <<67456,67461>>,
     <<67463,67504>>, <<67506,67514>>, <<68097,68099>>, <<68101,68102>>,
     <<68108,68111>>, <<68152,68154>>, <<68159,68159>>, <<68325,68326>>,
     <<68900,68903>>, <<69291,69292>>, <<69446,69456>>, <<69506,69509>>,
     <<69633,69633>>, <<69688,69702>>, <<69744,69744>>, <<69747,69748>>,
     <<69759,69761>>, <<69811,69814>>, <<69817,69818>>, <<69821,69821>>,
     <<69826,69826>>, <<69837,69837>>, <<69888,69890>>, <<69927,69931>>,
     <<69933,69940>>, <<70003,70003>>, <<70016,70017>>, <<70070,70078>>,
     <<70089,70092>>, <<70095,70095>>, <<70191,70193>>, <<70196,70196>>,
     <<70198,70199>>, <<70206,70206>>, <<70367,70367>>, <<70371,70378>>,
     <<70400,70401>>, <<70459,70460>>, <<70464,70464>>, <<70502,70508>>,
     <<70512,70516>>, <<70712,70719>>, <<70722,70724>>, <<70726,70726>>,
     <<70750,70750>>, <<70835,70840>>, <<70842,70842>>, <<70847,70848>>,
     <<70850,70851>>, <<71090,71093>>, <<71100,71101>>, <<71103,71104>>,
     <<71132,71133>>, <<71219,71226>>, <<71229,71229>>, <<71231,71232>>,
     <<71339,71339>>, <<71341,71341>>, <<71344,71349>>, <<71351,71351>>,
     <<71453,71455>>, <<71458,71461>>, <<71463,71467>>, <<71727,71735>>,
     <<71737,71738>>, <<71995,71996>>, <<71998,71998>>, <<72003,72003>>,
     <<72148,72151>>, <<72154,72155>>, <<72160,72160>>, <<72193,72202>>,
     <<72243,72248>>, <<72251,72254>>, <<72263,72263>>, <<72273,72278>>,
     <<72281,72283>>, <<72330,72342>>, <<72344,72345>>, <<72752,72758>>,
     <<72760,72765>>, <<72767,72767>>, <<72850,72871>>, <<72874,72880>>,
     <<72882,72883>>, <<72885,72886>>, <<73009,73014>>, <<73018,73018>>,
     <<73020,73021>>, <<73023,73029>>, <<73031,73031>>, <<73104,73105>>,
     <<73109,73109>>, <<73111,73111>>, <<73459,73460>>, <<78896,78904>>,
     <<92912,92916>>, <<92976,92982>>, <<92992,92995>>, <<94031,94031>>,
     <<94095,94111>>, <<94176,94177>>, <<94179,94180>>, <<110576,110579>>,
     <<110581,110587>>, <<110589,110590>>, <<113821,113822>>,
     <<113824,113827>>, <<118528,118573>>, <<118576,118598>>,
     <<119143,119145>>, <<119155,119170>>, <<119173,119179>>,
     <<119210,119213>>, <<119362,119364>>, <<121344,121398>>,
     <<121403,121452>>, <<121461,121461>>, <<121476,121476>>,
     <<121499,121503>>, <<121505,121519>>, <<122880,122886>>,
     <<122888,122904>>, <<122907,122913>>, <<122915,122916>>,
     <<122918,122922>>, <<123184,123197>>, <<123566,123566>>,
     <<123628,123631>>, <<125136,125142>>, <<125252,125259>>,
     <<127995,127999>>, <<917505,917505>>, <<917536,917631>>,
     <<917760,917999>>}

\* the cased code points that are not case-ignorable, as <<first, last>> ranges
CasedRanges ==
    {<<65,90>>, <<97,122>>, <<170,170>>, <<181,181>>, <<186,186>>,
     <<192,214>>, <<216,246>>, <<248,442>>, <<444,447>>, <<452,659>>,
     <<661,687>>, <<880,883>>, <<886,887>>, <<891,893>>, <<895,895>>,
     <<902,902>>, <<904,906>>, <<908,908>>, <<910,929>>, <<931,1013>>,
     <<1015,1153>>, <<1162,1327>>, <<1329,1366>>, <<1376,1416>>,
     <<4256,4293>>, <<4295,4295>>, <<4301,4301>>, <<4304,4346>>,
     <<4349,4351>>, <<5024,5109>>, <<5112,5117>>, <<7296,7304>>,
     <<7312,7354>>, <<7357,7359>>, <<7424,7467>>, <<7531,7543>>,
     <<7545,7578>>, <<7680,7957>>, <<7960,7965>>, <<7968,8005>>,
     <<8008,8013>>, <<8016,8023>>, <<8025,8025>>, <<8027,8027>>,
     <<8029,8029>>, <<8031,8061>>, <<8064,8116>>, <<8118,8124>>,
     <<8126,8126>>, <<8130,8132>>, <<8134,8140>>, <<8144,8147>>,
     <<8150,8155>>, <<8160,8172>>, <<8178,8180>>, <<8182,8188>>,
     <<8450,8450>>, <<8455,8455>>, <<8458,8467>>, <<8469,8469>>,
     <<8473,8477>>, <<8484,8484>>, <<8486,8486>>, <<8488,8488>>,
     <<8490,8493>>, <<8495,8500>>, <<8505,8505>>, <<8508,8511>>,
     <<8517,8521>>, <<8526,8526>>, <<8544,8575>>, <<8579,8580>>,
     <<9398,9449>>, <<11264,11387>>, <<11390,11492>>, <<11499,11502>>,
     <<11506,11507>>, <<11520,11557>>, <<11559,11559>>, <<11565,11565>>,
     <<42560,42605>>, <<42624,42651>>, <<42786,42863>>, <<42865,42887>>,
     <<42891,42894>>, <<42896,42954>>, <<42960,42961>>, <<42963,42963>>,
     <<42965,42969>>, <<42997,42998>>, <<43002,43002>>, <<43824,43866>>,
     <<43872,43880>>, <<43888,43967>>, <<64256,64262>>, <<64275,64279>>,
     <<65313,65338>>, <<65345,65370>>, <<66560,66639>>, <<66736,66771>>,
     <<66776,66811>>, <<66928,66938>>, <<66940,66954>>, <<66956,66962>>,
     <<66964,66965>>, <<66967,66977>>, <<66979,66993>>, <<66995,67001>>,
     <<67003,67004>>, <<68736,68786>>, <<68800,68850>>, <<71840,71903>>,
     <<93760,93823>>, <<119808,119892>>, <<119894,119964>>,
     <<119966,119967>>, <<119970,119970>>, <<119973,119974>>,
     <<119977,119980>>, <<119982,119993>>, <<119995,119995>>,
     <<119997,120003>>, <<120005,120069>>, <<120071,120074>>,
     <<120077,120084>>, <<120086,120092>>, <<120094,120121>>,
     <<120123,120126>>, <<120128,120132>>, <<120134,120134>>,
     <<120138,120144>>, <<120146,120485>>, <<120488,120512>>,
     <<120514,120538>>, <<120540,120570>>, <<120572,120596>>,
     <<120598,120628>>, <<120630,120654>>, <<120656,120686>>,
     <<120688,120712>>, <<120714,120744>>, <<120746,120770>>,
     <<120772,120779>>, <<122624,122633>>, <<122635,122654>>,
     <<125184,125251>>, <<127280,127305>>, <<127312,127337>>,
     <<127344,127369>>}

in_ranges(c, R) == \E r \in R : r[1] <= c /\ c <= r[2]

\* str.lower of one character whose lowercase is one character
lower_char(c) ==
    LET hit == {r \in LowerRuns : r[1] <= c /\ c <= r[2] /\ (c - r[1]) % r[3] = 0}
    IN  IF hit = {} THEN c ELSE c + (CHOOSE r \in hit : TRUE)[4]

SIGMA       == 931     \* capital sigma
FINAL_SIGMA == 962
SMALL_SIGMA == 963
I_DOT       == 304     \* capital I with dot above

\* the capital sigma at s[i] stands in final position: the nearest character
\* before it that is not case-ignorable is cased, and no cased character
\* follows it before a character that is neither cased nor case-ignorable
final_sigma(s, i) ==
    LET skipped(a, b) == \A k \in a..b : in_ranges(s[k], CaseIgnorableRanges)
        stop(j) == ~in_ranges(s[j], CaseIgnorableRanges)
    IN  /\ \E j \in 1..(i - 1) :
              stop(j) /\ skipped(j + 1, i - 1) /\ in_ranges(s[j], CasedRanges)
        /\ \A j \in (i + 1)..Len(s) :
              (stop(j) /\ skipped(i + 1, j - 1)) => ~in_ranges(s[j], CasedRanges)

\* the lowercase of the character at s[i], one or two characters long
lower_at(s, i) ==
    IF s[i] = I_DOT THEN <<105, 775>>
    ELSE IF s[i] = SIGMA
         THEN <<IF final_sigma(s, i) THEN FINAL_SIGMA ELSE SMALL_SIGMA>>
         ELSE <<lower_char(s[i])>>

RECURSIVE lower_from(_, _, _)
lower_from(s, a, b) ==
    IF a > b THEN <<>>
    ELSE IF a = b THEN lower_at(s, a)
    ELSE LET m == (a + b) \div 2 IN lower_from(s, a, m) \o lower_from(s, m + 1, b)

\* str.lower
lower(s) == lower_from(s, 1, Len(s))

\* line 62: the href without its fragment
href_of(link) == split_first(link, HASH)

\* lines 63-66: the two "continue" tests, made on the href with its query
keep_href(href) == startswith_slash(href) /\ has_article_id(href)

\* line 67
full_url(href) == lower(rstrip_slash(BASE_URL \o split_first(href, QMARK)))

\* lines 60-68: the set built from the anchors of the listing page
article_url_set(links) ==
    {full_url(href_of(l)) : l \in {l \in Range(links) : keep_href(href_of(l))}}

\* the orders list(urls) can give a set
Orderings(S) ==
    {s \in [1..Cardinality(S) -> S] : \A i, j \in 1..Cardinality(S) : i # j => s[i] # s[j]}

H_ABOUT    == <<47,97,98,111,117,116,45,117,115>>                    \* /about-us
H_QUERY_ID == <<63,114,101,102,61,47,49,50,51,52,53,54,55,56,46,120>>  \* ?ref=/12345678.x
H_UPPER    == <<47,80,111,108,105,116,105,99,115,47,49,50,51,52,53,54,55,56,46,65,47>>
                                                                     \* /Politics/12345678.A/
H_UTM      == <<63,117,116,109,61,49>>                               \* ?utm=1
H_TOP      == <<35,116,111,112>>                                     \* #top
H_ABS      == <<104,116,116,112,115,58,47,47,101,120,97,109,112,108,101,46,99,111,109>>
                                                                     \* https://example.com
H_SHORT    == <<47,112,111,108,105,116,105,99,115,47,49,50,51,52,53,54,55,46,97>>
                                                                     \* /politics/1234567.a
H_BENGALI  == <<47,112,47,2534,2535,2536,2537,2538,2539,2540,2541,46,97>>
                                                      \* /p/ + Bengali digits 0-7 + .a
H_SIGMA    == <<47,80,47,49,50,51,52,53,54,55,56,46,913,931,45,931,256>>
                                      \* /P/12345678. + Alpha Sigma - Sigma A-macron
H_IDOT     == <<47,49,50,51,52,53,54,55,56,46,304>>           \* /12345678. + I-dot

\* href attributes a listing page can carry
Hrefs ==
    {PATH_A, PATH_B \o <<SP>>, H_ABOUT, H_ABOUT \o H_QUERY_ID, H_UPPER,
     PATH_A \o H_UTM \o H_TOP, PATH_A \o <<SLASH, SLASH>>, H_ABS \o PATH_A,
     H_SHORT, H_TOP, H_BENGALI, H_SIGMA, H_IDOT}

\* the anchors of a listing page, in document order
Listings == UNION {[1..n -> Hrefs] : n \in 0..MaxLinks}

InitLocate ==
    /\ fs = [n \in FileNames |-> NoFile]
    /\ NotStarted
    /\ \E links \in Listings : fn_args = [links |-> links]
    /\ fn_ret = NoRet

\* fetch_article_urls, lines 56-70: the page was fetched and parsed
Locate ==
    /\ fn_ret = NoRet
    /\ \E list \in Orderings(article_url_set(fn_args.links)) :
           fn_ret' = [fn |-> "fetch_article_urls", urls |-> list, failed |-> FALSE]
    /\ UNCHANGED <<fs, procVars, fn_args>>

\* fetch_article_urls, lines 71-73: the request or the parser raised
LocateFail ==
    /\ fn_ret = NoRet
    /\ fn_ret' = [fn |-> "fetch_article_urls", urls |-> <<>>, failed |-> TRUE]
    /\ UNCHANGED <<fs, procVars, fn_args>>

NextLocate == Locate \/ LocateFail

SpecLocate == InitLocate /\ [][NextLocate]_vars

\* ------------------------------------------------- the ledger on its own
TAB  == 9
NBSP == 160

\* URLs the locator can return: an href keeps its trailing white space
LedgerURLs ==
    {URL_A, URL_B, URL_B_SP, URL_B_SP \o <<SP>>, URL_A \o <<TAB>>, URL_A \o <<NBSP>>,
     URL_B \o <<CR>>, URL_LONG}

InitLedger ==
    /\ \E f \in {NoFile, [exists |-> TRUE, content |-> <<>>]} :
           /\ fs = [n \in FileNames |-> f]
           /\ fn_ret = [fn |-> "ledger", file |-> f, appended |-> <<>>, loaded |-> None]
    /\ NotStarted
    /\ fn_args = [url |-> <<>>]

\* save_posted_url, lines 48-52 / 53-57
SavePostedUrl ==
    /\ Len(fn_ret.appended) < MaxAppends
    /\ \E u \in LedgerURLs :
        /\ fn_args' = [url |-> u]
        /\ fn_ret' = [fn_ret EXCEPT !.file = save_posted_url(@, u),
                                    !.appended = Append(@, u),
                                    !.loaded = None]
    /\ UNCHANGED <<fs, procVars>>

\* load_posted_urls, lines 38-46 / 43-51
LoadPostedUrls ==
    /\ fn_ret.loaded = None
    /\ fn_ret' = [fn_ret EXCEPT !.loaded = Some(load_posted_urls(fn_ret.file))]
    /\ UNCHANGED <<fs, procVars, fn_args>>

NextLedger == SavePostedUrl \/ LoadPostedUrls

SpecLedger == InitLedger /\ [][NextLedger]_vars

\* ------------------------------------------------------------- properties
TypeOK ==
    /\ \A p \in Procs :
          /\ pc[p] \in {"idle", "loop", "save", "write", "done", "failed", "exited"}
          /\ bot[p] \in Bots \cup {"none"}
          /\ bot[p] = "none" <=> pc[p] \in {"idle", "exited"}
    /\ torn \in 0..MaxTorn
    /\ lastEval.proc \in Procs \cup {0}

\* the process has been started and has not exited
Running(p) == pc[p] \notin {"idle", "exited"}

Ledger(p) == fs[POSTED_URLS_FILE(bot[p])]

\* the lines of a process's ledger file as written, before load strips them
LedgerLines(p) == raw_lines(Ledger(p))

\* the run of p overlaps no other run: no process was running when p was
\* started and none has been started since
Sequential(p) == log[p].alone /\ \A q \in Procs : q > p => pc[q] = "idle"

InDocWindow(b, hour) ==
    IF b = "x" THEN X_DOC_FROM <= hour /\ hour < X_DOC_TO
    ELSE BSKY_DOC_FROM <= hour /\ hour < BSKY_DOC_TO

\* C1: over a sequence of completed runs of one bot that do not overlap, no
\* URL is published more than once on that platform, whether the ledger
\* appends of those runs succeed or fail.
C1_AtMostOnce ==
    [][\A p \in Procs, u \in URLs :
          (Running(p) /\ Sequential(p) /\ pub[bot[p]][u])
          => log'[p].published # Append(log[p].published, u)]_vars

\* C2: one run performs at most one successful publish, whatever the outcome
\* of the ledger append that follows it.
C2_OnePublishPerRun == \A p \in Procs : Len(log[p].published) <= 1

\* C3: every line of a ledger is a URL the Publisher confirmed for a bot that
\* writes that ledger, and a run appends only URLs it has published itself
\* (so a run without a successful publish appends nothing).
C3_PublishThenRecord ==
    /\ \A n \in FileNames : \A line \in raw_lines(fs[n]) :
          /\ line \in URLs
          /\ \E b \in Bots : POSTED_URLS_FILE(b) = n /\ pub[b][line]
    /\ \A p \in Procs : Range(log[p].appended) \subseteq Range(log[p].published)

\* C4: when one bot publishes and records a URL, the posted set the other
\* bot would load stays as it was.
C4_IndependentLedgers ==
    [][\A p \in Procs :
          (Running(p) /\ Len(log'[p].appended) > Len(log[p].appended))
              => \A b \in Bots \ {bot[p]} :
                    load_posted_urls(fs'[POSTED_URLS_FILE(b)])
                        = load_posted_urls(fs[POSTED_URLS_FILE(b)])]_vars

\* C5: a candidate in the posted set loaded for the run gets no article
\* fetch and no publish attempt; when every candidate is in the posted set
\* the run makes no attempt at all and ends normally.
C5_Dedup ==
    \A p \in Procs :
        /\ posted_urls[p] \cap (log[p].fetched \cup Range(log[p].attempts)) = {}
        /\ (pc[p] = "done" /\ log[p].read /\ Range(log[p].cands) \subseteq posted_urls[p])
              => /\ log[p].attempts = <<>>
                 /\ log[p].fetched = {}
                 /\ log[p].ended \in {"empty", "exhausted"}

\* a run whose candidates were all in the posted set has ended
C5_Witness ==
    \E p \in Procs :
        /\ pc[p] = "done"
        /\ log[p].cands # <<>>
        /\ Range(log[p].cands) \subseteq posted_urls[p]
        /\ log[p].skipped = Range(log[p].cands)
        /\ log[p].attempts = <<>>

\* C6: for a candidate not in the posted set whose headline and publication
\* time are present, a publish is attempted exactly when
\* now - publishedAt <= 43200 seconds.
C6_Freshness ==
    (lastEval.url # <<>> /\ lastEval.headline # None
        /\ lastEval.headline # Some(<<>>) /\ lastEval.published # None)
    => ((lastEval.url \in Range(log[lastEval.proc].attempts))
          <=> (lastEval.now - lastEval.published[1] <= 12 * 3600))

\* an article exactly 12 hours old has been handed to the post step
C6_Witness ==
    /\ lastEval.published # None
    /\ lastEval.now - lastEval.published[1] = 12 * 3600
    /\ lastEval.url \in Range(log[lastEval.proc].attempts)

\* C7: when headline + " " + url exceeds the platform limit, the text has
\* exactly the limit's length and ends with the whole URL.
C7_Truncation ==
    LET limit == IF fn_ret.fn = "post_tweet" THEN 280 ELSE 300
        full  == fn_args.headline \o <<SP>> \o fn_args.url
        n     == Len(fn_ret.text)
        k     == Len(fn_args.url)
    IN  (fn_ret.fn # "none" /\ Len(full) > limit)
        => /\ n = limit
           /\ k <= n
           /\ SubSeq(fn_ret.text, n - k + 1, n) = fn_args.url

\* C8: when headline + " " + url fits the limit the text is exactly that
\* string, and the one link annotation spans exactly the UTF-8 bytes of the
\* URL in the encoded text.
C8_RoundTrip ==
    LET full  == fn_args.headline \o <<SP>> \o fn_args.url
        bytes == utf8_encode(fn_ret.text)
    IN  /\ (fn_ret.fn = "post_tweet" /\ Len(full) <= 280) => fn_ret.text = full
        /\ (fn_ret.fn = "post_to_bluesky" /\ Len(full) <= 300)
              => /\ fn_ret.text = full
                 /\ Len(fn_ret.facets) = 1
                 /\ fn_ret.facets[1].uri = fn_args.url
                 /\ fn_ret.facets[1].byteStart >= 0
                 /\ fn_ret.facets[1].byteEnd = Len(bytes)
                 /\ SubSeq(bytes, fn_ret.facets[1].byteStart + 1, fn_ret.facets[1].byteEnd)
                       = utf8_encode(fn_args.url)

\* a fitting Bluesky post whose headline holds multi-byte characters
C8_Witness ==
    /\ fn_ret.fn = "post_to_bluesky"
    /\ Len(fn_args.headline) > 0
    /\ fn_args.headline[1] > 127
    /\ Len(fn_args.headline \o <<SP>> \o fn_args.url) <= 300
    /\ fn_ret.text = fn_args.headline \o <<SP>> \o fn_args.url

\* C9: a run touches the ledger, the site and the Publisher exactly when the
\* Europe/London hour is inside the window its docstring states.
C9_DocWindow ==
    \A p \in Procs :
        Running(p) =>
            /\ log[p].read <=> InDocWindow(bot[p], current_hour[p])
            /\ ~InDocWindow(bot[p], current_hour[p])
                  => /\ ~log[p].listing
                     /\ log[p].fetched = {}
                     /\ log[p].attempts = <<>>
                     /\ log[p].appended = <<>>

\* C10: a failure on one candidate never ends the run: a run that passed the
\* guard stops before the end of its candidate list only behind a candidate
\* it has published and recorded, and otherwise evaluates every candidate.
C10_SkipAndContinue ==
    \A p \in Procs :
        LET k   == Len(log[p].cands) - Len(urls[p])
            cur == IF pc[p] \in {"save", "write"} THEN {Head(urls[p])} ELSE {}
        IN
        /\ (pc[p] \in {"loop", "save", "write"}) => urls[p] # <<>>
        /\ (Running(p) /\ log[p].read) =>
              /\ k >= 0
              /\ urls[p] = SubSeq(log[p].cands, k + 1, Len(log[p].cands))
              /\ {log[p].cands[i] : i \in 1..k} \cup cur = log[p].skipped \cup log[p].fetched
        /\ (pc[p] = "done" /\ log[p].read /\ urls[p] # <<>>) =>
              /\ k >= 1
              /\ log[p].cands[k] \in Range(log[p].published)
              /\ log[p].cands[k] \in Range(log[p].appended)

\* the first candidate's post failed and the second was published
C10_Witness ==
    \E p \in Procs :
        /\ pc[p] = "done"
        /\ Len(log[p].cands) = 2
        /\ log[p].attempts = log[p].cands
        /\ log[p].published = <<log[p].cands[2]>>
        /\ log[p].appended = <<log[p].cands[2]>>

\* C11: a run that has ended is in exactly one of four terminal conditions:
\* the guard rejected it, the locator returned no candidate, every candidate
\* was evaluated without a successful publish, or it made one successful
\* publish.
C11_FourEndings ==
    \A p \in Procs :
        pc[p] = "done" =>
            LET guard     == ~log[p].read
                empty     == log[p].read /\ log[p].cands = <<>>
                exhausted == /\ log[p].read /\ log[p].cands # <<>>
                             /\ urls[p] = <<>> /\ log[p].published = <<>>
                onePub    == log[p].read /\ Len(log[p].published) = 1
            IN  Cardinality({c \in {<<1, guard>>, <<2, empty>>, <<3, exhausted>>,
                                    <<4, onePub>>} : c[2]}) = 1

\* C12: the ledger is append-only: every step leaves each ledger file's old
\* content as a prefix of the new content, never removes the file, and so
\* every URL of the posted set a run would load stays in it.
C12_AppendOnly ==
    [][\A n \in FileNames :
          /\ fs[n].exists => fs'[n].exists
          /\ Len(fs[n].content) <= Len(fs'[n].content)
          /\ SubSeq(fs'[n].content, 1, Len(fs[n].content)) = fs[n].content
          /\ load_posted_urls(fs[n]) \subseteq load_posted_urls(fs'[n])]_vars

\* C13: every URL the locator returns starts with the site origin, is
\* lowercase, holds no '#' and no '?', does not end with '/', and its path
\* holds a '/' followed by at least 8 digits and a '.'; the result has no
\* duplicates, and each URL in it comes from an href that starts with '/'
\* and has that numeric-ID segment in its path.
C13_LocatorOutput ==
    fn_ret.fn = "fetch_article_urls" =>
        LET out  == fn_ret.urls
            n    == Len(BASE_URL)
            path(u) == SubSeq(u, n + 1, Len(u))
        IN  /\ \A i, j \in 1..Len(out) : i # j => out[i] # out[j]
            /\ \A i \in 1..Len(out) :
                  LET u == out[i] IN
                  /\ Len(u) > n /\ SubSeq(u, 1, n) = BASE_URL
                  /\ u = lower(u)
                  /\ \A k \in 1..Len(u) : u[k] \notin {HASH, QMARK}
                  /\ u[Len(u)] # SLASH
                  /\ has_article_id(path(u))
                  /\ \E l \in Range(fn_args.links) :
                        /\ startswith_slash(href_of(l))
                        /\ has_article_id(split_first(href_of(l), QMARK))
                        /\ u = full_url(href_of(l))

\* C14: for both bots, a process whose publisher credentials are missing or
\* invalid fails at startup, before any ledger read, listing fetch or publish
\* attempt; and a process fails only for that reason.
C14_CredentialsAtStartup ==
    \A p \in Procs :
        Running(p) =>
            /\ creds[p] # "ok" =>
                  /\ pc[p] = "failed"
                  /\ ~log[p].read
                  /\ ~log[p].listing
                  /\ log[p].attempts = <<>>
            /\ pc[p] = "failed" => creds[p] # "ok"

\* C15: overlapping runs on one ledger only ever add whole lines to it, and
\* a run does not publish u when an append of u by another run has completed
\* before the run evaluates u (stated for the URLs that read back from the
\* ledger unchanged).
C15_NoPublishAfterAppend ==
    [][/\ \A n \in FileNames :
             \/ fs'[n].content = fs[n].content
             \/ \E u \in URLs : fs'[n].content = fs[n].content \o u \o <<NL>>
       /\ \A p \in Procs, u \in URLs :
             (/\ strip(u) = u
              /\ pc[p] = "loop"
              /\ log'[p].published = Append(log[p].published, u))
             => u \notin LedgerLines(p)]_vars

\* C16: a ledger to which the same URL was appended twice loads as a set
\* that holds that URL (a ledger with nothing else in it loads as exactly
\* that URL), and a missing file or a file without entries loads as the
\* empty set.
C16_Idempotence ==
    (fn_ret.fn = "ledger" /\ fn_ret.loaded # None) =>
        LET set == fn_ret.loaded[1]
            app == fn_ret.appended
        IN  /\ app = <<>> => set = {}
            /\ \A i, j \in 1..Len(app) : (i # j /\ app[i] = app[j]) => app[i] \in set
            /\ (Len(app) = 2 /\ app[1] = app[2]) => set = {app[1]}

\* C17: the step that evaluates a candidate whose headline is absent or
\* empty, or whose publication time is absent, composes and submits
\* nothing (no publish attempt, no confirmed post) and leaves every ledger
\* file as it was.
C17_MissingInfoNotPosted ==
    [][(/\ lastEval'.url # <<>>
        /\ \/ lastEval'.headline = None
           \/ lastEval'.headline = Some(<<>>)
           \/ lastEval'.published = None)
       => LET p == lastEval'.proc IN
          /\ pc[p] = "loop"
          /\ lastEval'.url = Head(urls[p])
          /\ lastPost' = NoPost
          /\ log'[p].attempts = log[p].attempts
          /\ log'[p].published = log[p].published
          /\ log'[p].appended = log[p].appended
          /\ pub' = pub
          /\ fs' = fs]_vars

\* a candidate with an empty headline and a publication time was fetched
\* and passed over
C17_Witness ==
    /\ lastEval.url # <<>>
    /\ lastEval.headline = Some(<<>>)
    /\ lastEval.published # None
    /\ lastEval.url \in log[lastEval.proc].fetched
    /\ lastEval.url \notin Range(log[lastEval.proc].attempts)

\* C18: every iteration of a run takes the head of the remaining candidate
\* list, a URL the run has not evaluated or attempted before, makes at most
\* one publish attempt, for that URL, and removes the URL from the list for
\* good when it ends (for a confirmed post, after save_posted_url); this
\* also holds for an iteration whose publish attempt fails.
C18_NoRetry ==
    [][\A p \in Procs :
          LET u == Head(urls[p]) IN
          /\ (pc[p] = "loop" /\ log'[p] # log[p])
             => /\ u \notin log[p].skipped \cup log[p].fetched \cup Range(log[p].attempts)
                /\ u \in log'[p].skipped \cup log'[p].fetched
                /\ \/ log'[p].attempts = log[p].attempts
                   \/ log'[p].attempts = Append(log[p].attempts, u)
                /\ IF pc'[p] = "save"
                   THEN urls'[p] = urls[p] /\ log'[p].published = Append(log[p].published, u)
                   ELSE urls'[p] = Tail(urls[p]) /\ u \notin Range(urls'[p])
          /\ (pc[p] \in {"save", "write"} /\ pc'[p] # pc[p])
             => /\ log'[p].attempts = log[p].attempts
                /\ log'[p].fetched = log[p].fetched
                /\ IF pc'[p] = "write"
                   THEN urls'[p] = urls[p]
                   ELSE urls'[p] = Tail(urls[p]) /\ u \notin Range(urls'[p])]_vars

\* the publish attempt for the first candidate failed and the run went on to
\* the second candidate without returning to the first
C18_Witness ==
    \E p \in Procs :
        /\ Len(log[p].cands) = 2
        /\ urls[p] = <<>>
        /\ log[p].attempts # <<>>
        /\ log[p].attempts[1] = log[p].cands[1]
        /\ log[p].cands[1] \notin Range(log[p].published)
        /\ log[p].cands[2] \in log[p].fetched
        /\ \A i, j \in 1..Len(log[p].attempts) : i # j => log[p].attempts[i] # log[p].attempts[j]

\* C19: a Bluesky post whose preview image could not be fetched or uploaded
\* is still handed to send_post, with the text, the link annotation and the
\* link card of the article and without a thumbnail; when the Publisher
\* confirms it, the run is where every confirmed post leaves it: inside the
\* post function, about to call save_posted_url for that URL.
C19_ImageFailureStillPosts ==
    lastPost.image = "failed" =>
        LET p        == lastEval.proc
            url      == lastEval.url
            headline == lastEval.headline[1]
        IN  /\ bot[p] = "bsky"
            /\ lastPost.sent
            /\ ~lastPost.thumb
            /\ lastPost.text = bsky_text(headline, url)
            /\ lastPost.facets = bsky_facets(headline, url)
            /\ lastPost.card = Some(url)
            /\ log[p].attempts # <<>>
            /\ log[p].attempts[Len(log[p].attempts)] = url
            /\ IF url \in Range(log[p].published)
               THEN pc[p] = "save" /\ Head(urls[p]) = url
               ELSE pc[p] \in {"loop", "done"} /\ url \notin Range(urls[p])

\* a post whose image failed was sent without a thumbnail, the Publisher
\* confirmed it and the run is about to record it
C19_Witness ==
    /\ lastPost.image = "failed"
    /\ lastPost.sent
    /\ ~lastPost.thumb
    /\ lastEval.url \in Range(log[lastEval.proc].published)
    /\ pc[lastEval.proc] = "save"
    /\ Head(urls[lastEval.proc]) = lastEval.url

\* C20: a run that overlaps no other adds at most one entry to the posted
\* set its ledger loads as; a run makes at most one append that returns, and
\* that append ends it.
C20_OneAppendPerRun ==
    \A p \in Procs :
        (pc[p] \in {"loop", "save", "write", "done"} /\ log[p].read) =>
            /\ Sequential(p)
                  => Cardinality(load_posted_urls(Ledger(p)) \ posted_urls[p]) <= 1
            /\ Len(log[p].appended) <= 1
            /\ log[p].appended # <<>> => pc[p] = "done" /\ log[p].ended = "posted"

====
